---------------------------- MODULE Spec2Model ----------------------------
(***************************************************************************)
(* A state-machine model of the audio analysis pipeline of audio-viz:      *)
(* the full-metrics analyzer (V7, src/unnamed/part_001), the onset         *)
(* analyzer (V5) and the Meyda hybrid (V6) of src/audio-engine.js.         *)
(*                                                                         *)
(* Numbers.  JavaScript numbers are doubles; TLC has integers only.        *)
(*   - energies, hit values, presence, confidence ... are fixed point in   *)
(*     units of 1/SCALE, every product rounded down;                       *)
(*   - times are whole milliseconds of performance.now();                  *)
(*   - oscillator phases are binary floating point, [m, e] standing for   *)
(*     m * 2^e, every operation rounded to nearest (ties to even) as       *)
(*     IEEE-754 rounds, with a significand of SigBits bits where the       *)
(*     double has 53;                                                      *)
(*   - beatInterval is the exact rational num/den.                         *)
(***************************************************************************)
EXTENDS Integers, Sequences, FiniteSets, TLC

\* 1.0 in fixed point
SCALE == 10 * 1000

\* ----- bounds of the model ------------------------------------------------
\* length of the mel-band vector handed over by the feature extractor
NumBands == 26
\* bits of the significand of a floating-point number
SigBits == 12

\* ----- program constants --------------------------------------------------
\* analyser.frequencyBinCount = fftSize / 2
BufferLength == 1024
\* ctx.sampleRate / 2 at 44.1 kHz
Nyquist == 22050

Max(a, b) == IF a >= b THEN a ELSE b
Min(a, b) == IF a <= b THEN a ELSE b
Abs(a) == IF a >= 0 THEN a ELSE -a

\* x * (num/den), rounded down: the fixed-point image of x * 0.95 and the like
Frac(x, num, den) == (x * num) \div den

\* floor(n * SCALE / d) by long division, two decimal digits at a time, so that
\* no intermediate product leaves the integers TLC computes with
DivScale(n, d) ==
    LET r1 == n % d
        r2 == (r1 * 100) % d
    IN  (n \div d) * SCALE + ((r1 * 100) \div d) * 100 + ((r2 * 100) \div d)

RECURSIVE SqrtSearch(_, _, _)
SqrtSearch(n, lo, hi) ==
    IF lo >= hi THEN lo
    ELSE LET mid == (lo + hi + 1) \div 2
         IN  IF mid * mid <= n THEN SqrtSearch(n, mid, hi)
                               ELSE SqrtSearch(n, lo, mid - 1)

\* floor(Math.sqrt(n)) for an integer n >= 0
ISqrt(n) == SqrtSearch(n, 0, Min(n, 46340))

\* Math.sin over one cycle cut into 480 steps (Bhaskara's rational
\* approximation on each half cycle), result in -SCALE .. SCALE
SinStep(k) ==
    LET h == k % 240
        q == h * (240 - h)
        s == (4 * q * SCALE) \div (72000 - q)
    IN  IF (k % 480) < 240 THEN s ELSE -s

\* Math.cos(2*pi*x/SCALE) for 0 <= x < SCALE
CosUnit(x) == SinStep(((x * 480) \div SCALE) + 120)

\* ----- floating point ------------------------------------------------------
\* the powers of two TLC's integers hold
Powers ==
    << 1, 2, 4, 8, 16, 32, 64, 128, 256, 512, 1024, 2048, 4096, 8192,
       16384, 32768, 65536, 131072, 262144, 524288, 1048576, 2097152,
       4194304, 8388608, 16777216, 33554432, 67108864, 134217728,
       268435456, 536870912, 1073741824 >>
Pow2(k) == Powers[k + 1]

RECURSIVE BitLen(_)
\* the number of bits of n >= 0
BitLen(n) ==
    IF n >= 256 THEN 8 + BitLen(n \div 256)
    ELSE IF n >= 16 THEN 4 + BitLen(n \div 16)
    ELSE IF n = 0 THEN 0 ELSE 1 + BitLen(n \div 2)

FZero == [m |-> 0, e |-> 0]

\* m * 2^e rounded to SigBits bits, ties to even; the significand of a
\* non-zero result has exactly SigBits bits
FNorm(m, e) ==
    IF m = 0 THEN FZero
    ELSE IF BitLen(m) <= SigBits
         THEN [m |-> m * Pow2(SigBits - BitLen(m)), e |-> e - (SigBits - BitLen(m))]
         ELSE LET k == BitLen(m) - SigBits
                  q == Pow2(k)
                  lo == m % q
                  hi == m \div q
                  r == IF 2 * lo > q \/ (2 * lo = q /\ hi % 2 = 1) THEN hi + 1 ELSE hi
              IN  IF r = Pow2(SigBits) THEN [m |-> Pow2(SigBits - 1), e |-> e + k + 1]
                                       ELSE [m |-> r, e |-> e + k]

\* an integer as a floating-point number
FInt(n) == FNorm(n, 0)

\* a * b
FMul(a, b) == FNorm(a.m * b.m, a.e + b.e)

\* a / b for b # 0; the last bit of the quotient handed to FNorm is sticky
FDiv(a, b) ==
    LET n == a.m * Pow2(SigBits + 2)
    IN  FNorm(2 * (n \div b.m) + (IF n % b.m = 0 THEN 0 ELSE 1),
              a.e - b.e - SigBits - 3)

\* a + b for a, b >= 0
FAdd(a, b) ==
    IF a.m = 0 THEN b
    ELSE IF b.m = 0 THEN a
    ELSE LET hi == IF a.e >= b.e THEN a ELSE b
             lo == IF a.e >= b.e THEN b ELSE a
             d == hi.e - lo.e
         IN  IF d > SigBits + 2 THEN hi
             ELSE FNorm(hi.m * Pow2(d) + lo.m, lo.e)

\* x % 1.0 for x >= 0 (exact, as the remainder of two doubles is)
FMod1(x) ==
    IF x.m = 0 \/ x.e >= 0 THEN FZero
    ELSE IF -x.e > SigBits THEN x
    ELSE FNorm(x.m % Pow2(-x.e), x.e)

\* x < 1 for x >= 0
FBelowOne(x) == x.m = 0 \/ (x.e < 0 /\ (-x.e > SigBits \/ x.m < Pow2(-x.e)))

\* floor(x * 1024) for x >= 0
FMilli(x) ==
    IF x.e + 10 >= 0 THEN x.m * Pow2(x.e + 10)
    ELSE IF -(x.e + 10) > SigBits THEN 0
    ELSE x.m \div Pow2(-(x.e + 10))

\* Math.PI
MathPI == FNorm(3294199, -20)

\* Math.sin(x) for x >= 0 radians: the step of the cycle x falls in
\* (2 * pi * 1024 = 6434)
SinPhase(x) == SinStep(((FMilli(x) * 480) \div 6434) % 480)

RECURSIVE SumSeq(_, _, _)
\* m.slice(lo, hi).reduce((a,b) => a+b, 0), indices 0-based as in the source
SumSeq(m, lo, hi) == IF lo >= hi THEN 0 ELSE m[lo + 1] + SumSeq(m, lo + 1, hi)

\* ----- inputs ---------------------------------------------------------------
\* What analyser.getByteFrequencyData writes into dataArray: a spectrum is
\* named by a pattern and SpectrumOf gives its BufferLength bytes.
SpectrumIds == {"silence", "kick", "snare", "full"}

SpectrumOf(p) ==
    [i \in 0 .. BufferLength - 1 |->
        CASE p = "silence" -> 0
          [] p = "kick"    -> IF i < 12 THEN 230 ELSE 0
          [] p = "snare"   -> IF i \in 20 .. 400 THEN 200 ELSE 0
          [] p = "full"    -> 255]

\* A mel-band vector of the extractor: a bump of height b on the lowest four
\* bands, m on bands 8..12, t on the top six bands (zero elsewhere).
MelFrame(b, m, t) ==
    [i \in 1 .. NumBands |->
        IF i <= 4 THEN b
        ELSE IF i \in 8 .. 12 THEN m
        ELSE IF i > NumBands - 6 THEN t
        ELSE 0]

\* meydaAnalyzer.get(): null, a frame without melBands, or a full frame
NoFeatures == [kind |-> "null"]
NoMelFeatures == [kind |-> "nomel", rms |-> 0, spectralCentroid |-> 0]
Features(mel, rms, sc) ==
    [kind |-> "frame", melBands |-> mel, rms |-> rms, spectralCentroid |-> sc]

\* ----- state ----------------------------------------------------------------
VARIABLES
    now,               \* performance.now(), milliseconds
    variant,           \* the analyzer class constructed: "V1", "V5", "V6", "V7"
    initPc,            \* where init() stands: "new", "resuming", "asking", "ready", "failed"
    isInit,            \* this.isInit
    meydaAnalyzer,     \* this.meydaAnalyzer: "null", "created" or "started"
    lastUpdateTime,    \* this.lastUpdateTime
    previousDataArray, \* this.previousDataArray (a spectrum pattern)
    peaks,             \* this.peaks
    avgFlux,           \* this.avgFlux
    avgVol,            \* this.avgVol
    kick,              \* this.kick
    snare,             \* this.snare
    hits,              \* this.hits
    presence,          \* this.presence
    timers,            \* this.timers
    beatTracking,      \* this.beatTracking
    lfoPhases,         \* this.lfoPhases
    rampPhases,        \* this.rampPhases
    metrics,           \* this.metrics
    lastOp,            \* the operation that acted last, and how it ended
    v5,                \* the fields of the V5 analyzer
    v6,                \* the fields of the V6 analyzer
    held,              \* what the renderer keeps of its last getMetrics() call
    v1,                \* the fields of the V1 analyzer
    tesseract,         \* the fields of the Tesseract renderer
    log,               \* history: one record per processed tick of V7's update()
    steps              \* history: the number of operations so far

v7vars == << isInit, meydaAnalyzer, lastUpdateTime, previousDataArray, peaks,
             avgFlux, avgVol, kick, snare, hits, presence, timers,
             beatTracking, lfoPhases, rampPhases, metrics >>

vars == << now, variant, initPc, v7vars, lastOp, v5, v6, held, v1, tesseract,
          log, steps >>

BandNames == {"bass", "mid", "high"}

InitHit == [detected |-> FALSE, lastTime |-> 0, avgEnergy |-> 0,
            prevEnergy |-> 0, value |-> 0]

InitBeatTracking ==
    [bpm |-> 0, confidence |-> 0, beatPhase |-> 0, lastBeatTime |-> 0,
     beatInterval |-> [num |-> 500, den |-> 1], beatHistory |-> << >>,
     onBeat |-> 0]

InitMetrics ==
    [bass |-> 0, mid |-> 0, treble |-> 0, vol |-> 0, centroid |-> 0,
     isKick |-> FALSE, isSnare |-> FALSE,
     bassHit |-> 0, midHit |-> 0, highHit |-> 0,
     bassPresence |-> 0, midPresence |-> 0, highPresence |-> 0,
     bassTime |-> 0, midTime |-> 0, highTime |-> 0,
     bpm |-> 0, onBeat |-> 0, beatPhase |-> 0,
     lfo2 |-> 0, lfo4 |-> 0, lfo8 |-> 0,
     ramp2 |-> FZero, ramp4 |-> FZero, ramp8 |-> FZero]

\* The V7 constructor, run at time t
V7Constructed(t) ==
    /\ isInit = FALSE
    /\ meydaAnalyzer = "null"
    /\ lastUpdateTime = t
    /\ previousDataArray = "silence"
    /\ peaks = [bass |-> SCALE, mid |-> SCALE, treble |-> SCALE]
    /\ avgFlux = 0
    /\ avgVol = 0
    /\ kick = [detected |-> FALSE, lastTime |-> 0]
    /\ snare = [detected |-> FALSE, lastTime |-> 0]
    /\ hits = [b \in BandNames |-> InitHit]
    /\ presence = [b \in BandNames |-> 0]
    /\ timers = [b \in BandNames |-> 0]
    /\ beatTracking = InitBeatTracking
    /\ lfoPhases = [lfo2 |-> FZero, lfo4 |-> FZero, lfo8 |-> FZero]
    /\ rampPhases = [ramp2 |-> FZero, ramp4 |-> FZero, ramp8 |-> FZero]
    /\ metrics = InitMetrics

\* ----- V7: the pure steps of update() ---------------------------------------
RECURSIVE AbsDiffSum(_, _, _, _)
\* the sum of |a[i] - b[i]| for lo <= i <= hi (halving, to keep the
\* evaluation shallow)
AbsDiffSum(a, b, lo, hi) ==
    IF lo > hi THEN 0
    ELSE IF lo = hi THEN Abs(a[lo] - b[lo])
    ELSE LET mid == (lo + hi) \div 2
         IN  AbsDiffSum(a, b, lo, mid) + AbsDiffSum(a, b, mid + 1, hi)

\* flux: mean absolute difference of two spectra (bytes), fixed point
Flux(cur, prev) ==
    DivScale(AbsDiffSum(SpectrumOf(cur), SpectrumOf(prev), 0, BufferLength - 1),
             BufferLength)

\* the flux of every pair of spectrum patterns, computed once
FluxRow(c) ==
    [silence |-> Flux(c, "silence"), kick |-> Flux(c, "kick"),
     snare |-> Flux(c, "snare"), full |-> Flux(c, "full")]

FluxTable ==
    [silence |-> FluxRow("silence"), kick |-> FluxRow("kick"),
     snare |-> FluxRow("snare"), full |-> FluxRow("full")]

\* Math.floor(numBands * 0.2) and Math.floor(numBands * 0.5)
BassEnd(numBands) == (numBands * 2) \div 10
MidEnd(numBands) == (numBands * 5) \div 10

\* the mean of m.slice(lo, hi); an empty slice is 0/0
SliceMean(m, lo, hi) == IF hi <= lo THEN "NaN" ELSE SumSeq(m, lo, hi) \div (hi - lo)

\* bassSum, midSum, trebleSum of a mel-band vector
BandSums(m) ==
    LET numBands == Len(m)
        bassEnd == BassEnd(numBands)
        midEnd == MidEnd(numBands)
    IN  [bass |-> SliceMean(m, 0, bassEnd),
         mid |-> SliceMean(m, bassEnd, midEnd),
         treble |-> SliceMean(m, midEnd, numBands)]

\* mutant: the peak never decays
PeakStepHeld(peak, raw) == Max(peak, raw)

\* this.peaks.x = Math.max(this.peaks.x * 0.999, xSum)
PeakStep(peak, raw) == Max(Frac(peak, 999, 1000), raw)

\* mutant: the quotient is published without Math.min(1, .)
NormalizeUnclamped(raw, peak) == DivScale(raw, Max(SCALE \div 10, Frac(peak, 8, 10)))

\* Math.min(1, xSum / Math.max(0.1, this.peaks.x * 0.8))
Normalize(raw, peak) ==
    Min(SCALE, DivScale(raw, Max(SCALE \div 10, Frac(peak, 8, 10))))

\* Math.min(1, features.spectralCentroid / nyquist)
Centroid(sc) == Min(SCALE, (sc * SCALE) \div Nyquist)

\* Math.max(0.5, this.avgFlux * 1.2)
FluxThreshold(avg) == Max(SCALE \div 2, Frac(avg, 12, 10))

\* mutant: the reset of isSnare is forgotten
ResetKickOnly(m) == [m EXCEPT !.isKick = FALSE]

\* this.metrics.isKick = false; this.metrics.isSnare = false
ResetFlags(m) == [m EXCEPT !.isKick = FALSE, !.isSnare = FALSE]

\* mutant: a kick also stamps the snare's lastTime
KickSnareSharedStamp(flux, fluxThreshold, centroid, bass, t, kickLast, snareLast) ==
    LET isKick == /\ flux > fluxThreshold
                  /\ centroid < Frac(SCALE, 35, 100)
                  /\ bass > Frac(SCALE, 3, 10)
                  /\ t - kickLast > 150
        isSnare == /\ flux > fluxThreshold
                   /\ ~isKick
                   /\ centroid > Frac(SCALE, 35, 100)
                   /\ t - snareLast > 100
    IN  [isKick |-> isKick, isSnare |-> isSnare,
         kickLast |-> IF isKick THEN t ELSE kickLast,
         snareLast |-> IF isKick \/ isSnare THEN t ELSE snareLast]

\* The legacy kick/snare detection: which flag this tick sets, and the two
\* lastTime stamps after it.
KickSnare(flux, fluxThreshold, centroid, bass, t, kickLast, snareLast) ==
    LET hasBassEnergy == bass > Frac(SCALE, 3, 10)
        isKick == /\ flux > fluxThreshold
                  /\ centroid < Frac(SCALE, 35, 100)
                  /\ hasBassEnergy
                  /\ t - kickLast > 150
        isSnare == /\ flux > fluxThreshold
                   /\ ~isKick
                   /\ centroid > Frac(SCALE, 35, 100)
                   /\ t - snareLast > 100
    IN  [isKick |-> isKick, isSnare |-> isSnare,
         kickLast |-> IF isKick THEN t ELSE kickLast,
         snareLast |-> IF isSnare THEN t ELSE snareLast]

\* the cooldown of each band of the multi-band hit detector
Cooldown(name) == CASE name = "bass" -> 120 [] name = "mid" -> 100 [] name = "high" -> 80

\* the trigger condition of one band
HitTriggers(hit, avg, energy, cooldown, t) ==
    LET delta == energy - hit.prevEnergy
        threshold == Max(SCALE \div 10, Frac(avg, 5, 10))
        isTransient == delta > threshold
        cooledDown == t - hit.lastTime > cooldown
    IN  isTransient /\ cooledDown /\ energy > Frac(SCALE, 2, 10)

\* mutant: the hit value decays by 0.95 a tick
HitStepSlowDecay(hit, energy, cooldown, t) ==
    LET avg == Frac(hit.avgEnergy, 95, 100) + Frac(energy, 5, 100)
        fire == HitTriggers(hit, avg, energy, cooldown, t)
    IN  [detected |-> fire,
         lastTime |-> IF fire THEN t ELSE hit.lastTime,
         avgEnergy |-> avg,
         prevEnergy |-> energy,
         value |-> Frac(IF fire THEN SCALE ELSE hit.value, 95, 100)]

\* mutant: the hit value of a trigger tick is published before its decay
HitStepFreshTrigger(hit, energy, cooldown, t) ==
    LET avg == Frac(hit.avgEnergy, 95, 100) + Frac(energy, 5, 100)
        fire == HitTriggers(hit, avg, energy, cooldown, t)
    IN  [detected |-> fire,
         lastTime |-> IF fire THEN t ELSE hit.lastTime,
         avgEnergy |-> avg,
         prevEnergy |-> energy,
         value |-> IF fire THEN SCALE ELSE Frac(hit.value, 85, 100)]

\* one band's pass through the bands.forEach body
HitStep(hit, energy, cooldown, t) ==
    LET avg == Frac(hit.avgEnergy, 95, 100) + Frac(energy, 5, 100)
        fire == HitTriggers(hit, avg, energy, cooldown, t)
    IN  [detected |-> fire,
         lastTime |-> IF fire THEN t ELSE hit.lastTime,
         avgEnergy |-> avg,
         prevEnergy |-> energy,
         value |-> Frac(IF fire THEN SCALE ELSE hit.value, 85, 100)]

\* mutant: the two blend factors are swapped
PresenceStepSwapped(p, energy) == Frac(p, 2, 100) + Frac(energy, 98, 100)

\* presence * 0.98 + energy * (1 - 0.98)
PresenceStep(p, energy) == Frac(p, 98, 100) + Frac(energy, 2, 100)

\* ----- V7: beat tracking ----------------------------------------------------
RECURSIVE Intervals(_, _)
\* intervals[i-1] = beatHistory[i] - beatHistory[i-1], from index i on (1-based)
Intervals(h, i) ==
    IF i >= Len(h) THEN << >> ELSE << h[i + 1] - h[i] >> \o Intervals(h, i + 1)

RECURSIVE SumOf(_)
SumOf(s) == IF s = << >> THEN 0 ELSE Head(s) + SumOf(Tail(s))

\* mutant: the sum of the intervals is taken for their average
BpmOfTotal(total, n) == (2 * 60000 + total) \div (2 * total)

\* Math.round(60000 / avgInterval), avgInterval = total / n
BpmOf(total, n) == (2 * 60000 * n + total) \div (2 * total)

\* Math.max(0, 1 - stdDev / avgInterval) of the intervals, fixed point.
\* With S the total and n the count, n * stdDev = sqrt(sum((n*v - S)^2) / n)
\* and n * avgInterval = S.
ConfidenceOf(intervals) ==
    LET n == Len(intervals)
        S == SumOf(intervals)
        dev == [i \in 1 .. n |-> (n * intervals[i] - S) * (n * intervals[i] - S)]
        nStdDev == ISqrt(SumOf(dev) \div n)
    IN  Max(0, SCALE - (nStdDev * SCALE) \div S)

\* mutant: a hit exactly 200 ms after the last beat is accepted
BeatAcceptedAt200(bt, t, bassHit) ==
    bassHit > Frac(SCALE, 8, 10) /\ t - bt.lastBeatTime >= 200

\* whether the call accepts a beat: bassHit > 0.8 and more than 200 ms since
\* the last accepted beat
BeatAccepted(bt, t, bassHit) ==
    bassHit > Frac(SCALE, 8, 10) /\ t - bt.lastBeatTime > 200

\* mutant: the history is never shifted
PushBeatUnbounded(h, t) == Append(h, t)

\* beatHistory after push(now) and the shift() that keeps 8 entries
PushBeat(h, t) ==
    LET pushed == Append(h, t)
    IN  IF Len(pushed) > 8 THEN Tail(pushed) ELSE pushed

\* mutant: the phase is taken from now, not from the time since the last beat
BeatPhaseOfNow(t, lastBeatTime, interval) ==
    (((t * interval.den) % interval.num) * SCALE) \div interval.num

\* (timeSinceLastBeat % beatInterval) / beatInterval, fixed point
BeatPhase(t, lastBeatTime, interval) ==
    ((((t - lastBeatTime) * interval.den) % interval.num) * SCALE) \div interval.num

\* mutant: the cosine is not squared
OnBeatUnsquared(phase) == CosUnit(phase)

\* Math.pow(Math.cos(beatPhase * Math.PI * 2), 2)
OnBeat(phase) == (CosUnit(phase) * CosUnit(phase)) \div SCALE

\* mutant: the tempo is recomputed from the third beat of the history on
UpdateBeatTrackingFrom3(bt, t, bassHit) ==
    LET accepted == BeatAccepted(bt, t, bassHit)
        history == IF accepted THEN PushBeat(bt.beatHistory, t) ELSE bt.beatHistory
        lastBeat == IF accepted THEN t ELSE bt.lastBeatTime
        recompute == accepted /\ Len(history) >= 3
        intervals == Intervals(history, 1)
        interval == IF recompute
                    THEN [num |-> SumOf(intervals), den |-> Len(intervals)]
                    ELSE bt.beatInterval
        hasPhase == interval.num > 0
        phase == IF hasPhase THEN BeatPhase(t, lastBeat, interval) ELSE bt.beatPhase
    IN  [bpm |-> IF recompute THEN BpmOf(interval.num, interval.den) ELSE bt.bpm,
         confidence |-> IF recompute THEN ConfidenceOf(intervals) ELSE bt.confidence,
         beatPhase |-> phase,
         lastBeatTime |-> lastBeat,
         beatInterval |-> interval,
         beatHistory |-> history,
         onBeat |-> IF hasPhase THEN OnBeat(phase) ELSE bt.onBeat]

\* this.beatTracking after updateBeatTracking(now, bassEnergy, bassHit)
UpdateBeatTracking(bt, t, bassHit) ==
    LET accepted == BeatAccepted(bt, t, bassHit)
        history == IF accepted THEN PushBeat(bt.beatHistory, t) ELSE bt.beatHistory
        lastBeat == IF accepted THEN t ELSE bt.lastBeatTime
        recompute == accepted /\ Len(history) >= 4
        intervals == Intervals(history, 1)
        interval == IF recompute
                    THEN [num |-> SumOf(intervals), den |-> Len(intervals)]
                    ELSE bt.beatInterval
        hasPhase == interval.num > 0
        phase == IF hasPhase THEN BeatPhase(t, lastBeat, interval) ELSE bt.beatPhase
    IN  [bpm |-> IF recompute THEN BpmOf(interval.num, interval.den) ELSE bt.bpm,
         confidence |-> IF recompute THEN ConfidenceOf(intervals) ELSE bt.confidence,
         beatPhase |-> phase,
         lastBeatTime |-> lastBeat,
         beatInterval |-> interval,
         beatHistory |-> history,
         onBeat |-> IF hasPhase THEN OnBeat(phase) ELSE bt.onBeat]

\* ----- V7: oscillators ------------------------------------------------------
\* bt.bpm > 0 ? bt.bpm : 120
OscBpm(bpm) == IF bpm > 0 THEN bpm ELSE 120

\* beatsPerSecond = bpm / 60 and deltaSeconds = deltaTime / 1000
BeatsPerSecond(bpm) == FDiv(FInt(OscBpm(bpm)), FInt(60))
DeltaSeconds(deltaTime) == FDiv(FInt(deltaTime), FInt(1000))

\* phase + (beatsPerSecond / divisor) * deltaSeconds * Math.PI * 2
LfoStep(phase, bps, divisor, ds) ==
    FAdd(phase, FMul(FMul(FMul(FDiv(bps, FInt(divisor)), ds), MathPI), FInt(2)))

\* this.lfoPhases after updateLFOs(deltaTime)
UpdateLFOs(ph, bpm, deltaTime) ==
    LET beatsPerSecond == BeatsPerSecond(bpm)
        deltaSeconds == DeltaSeconds(deltaTime)
    IN  [lfo2 |-> LfoStep(ph.lfo2, beatsPerSecond, 2, deltaSeconds),
         lfo4 |-> LfoStep(ph.lfo4, beatsPerSecond, 4, deltaSeconds),
         lfo8 |-> LfoStep(ph.lfo8, beatsPerSecond, 8, deltaSeconds)]

\* (Math.sin(phase) + 1) / 2
LfoValue(phase) == (SinPhase(phase) + SCALE) \div 2

\* mutant: every ramp runs at the rate of one beat per cycle
RampStepUndivided(phase, bps, divisor, ds) ==
    FMod1(FAdd(phase, FMul(bps, ds)))

\* (phase + (beatsPerSecond / divisor) * deltaSeconds) % 1.0
RampStep(phase, bps, divisor, ds) ==
    FMod1(FAdd(phase, FMul(FDiv(bps, FInt(divisor)), ds)))

\* this.rampPhases after updateRamps(deltaTime)
UpdateRamps(ph, bpm, deltaTime) ==
    LET beatsPerSecond == BeatsPerSecond(bpm)
        deltaSeconds == DeltaSeconds(deltaTime)
    IN  [ramp2 |-> RampStep(ph.ramp2, beatsPerSecond, 2, deltaSeconds),
         ramp4 |-> RampStep(ph.ramp4, beatsPerSecond, 4, deltaSeconds),
         ramp8 |-> RampStep(ph.ramp8, beatsPerSecond, 8, deltaSeconds)]

\* ----- V7: init() -----------------------------------------------------------
\* Every operation is given dt, the time that passed since the operation before.
Clock(dt) == now' = now + dt /\ steps' = steps + 1 /\ UNCHANGED variant

\* init() is called: it awaits ctx.resume() when the context is suspended and
\* then awaits getUserMedia
InitCall(suspended, dt) ==
    /\ variant = "V7"
    /\ initPc = "new"
    /\ Clock(dt)
    /\ initPc' = IF suspended THEN "resuming" ELSE "asking"
    /\ lastOp' = "init:called"
    /\ UNCHANGED << v7vars, v5, v6, held, v1, tesseract, log >>

\* ctx.resume() settles; a rejection leaves init() outside its try block
InitResumed(ok, dt) ==
    /\ variant = "V7"
    /\ initPc = "resuming"
    /\ Clock(dt)
    /\ initPc' = IF ok THEN "asking" ELSE "failed"
    /\ lastOp' = "init:resumed"
    /\ UNCHANGED << v7vars, v5, v6, held, v1, tesseract, log >>

\* The state after the try block ran with getUserMedia resolved.  outcome is
\* "ok", or the call of the block that threw: "create" (createMeydaAnalyzer) or
\* "start" (meydaAnalyzer.start).
InitGranted(outcome, dt) ==
    /\ variant = "V7"
    /\ initPc = "asking"
    /\ Clock(dt)
    /\ meydaAnalyzer' = CASE outcome = "ok" -> "started"
                          [] outcome = "start" -> "created"
                          [] outcome = "create" -> "null"
    /\ isInit' = (outcome = "ok")
    /\ lastUpdateTime' = IF outcome = "ok" THEN now' ELSE lastUpdateTime
    /\ initPc' = IF outcome = "ok" THEN "ready" ELSE "failed"
    /\ lastOp' = "init:granted"
    /\ UNCHANGED << previousDataArray, peaks, avgFlux, avgVol, kick, snare, hits,
                    presence, timers, beatTracking, lfoPhases, rampPhases, metrics,
                    v5, v6, held, v1, tesseract, log >>

\* getUserMedia rejects: the catch block logs and init() returns
InitRejected(dt) ==
    /\ variant = "V7"
    /\ initPc = "asking"
    /\ Clock(dt)
    /\ initPc' = "failed"
    /\ lastOp' = "init:rejected"
    /\ UNCHANGED << v7vars, v5, v6, held, v1, tesseract, log >>

\* ----- V7: update() ---------------------------------------------------------
\* mutant: the guard tests the extractor alone
NoExtractor == meydaAnalyzer = "null"

\* mutant: the guard returns only when both tests fail
NotReadyAtAll == ~isInit /\ meydaAnalyzer = "null"

\* if (!this.isInit || !this.meydaAnalyzer) return
NotReady == ~isInit \/ meydaAnalyzer = "null"

\* if (!features || !features.melBands) return
FeaturesAbsent(features) == features.kind # "frame"

\* the raw sum and the peak the normalization of a band reads
RawOf(sums, name) ==
    CASE name = "bass" -> sums.bass [] name = "mid" -> sums.mid [] name = "high" -> sums.treble
PeakOf(pk, name) ==
    CASE name = "bass" -> pk.bass [] name = "mid" -> pk.mid [] name = "high" -> pk.treble

\* The body of update() once a feature frame is there, in the order of the
\* source; a primed variable is the field as the statements above left it.
Process(spectrum, features, t) ==
    LET deltaTime == t - lastUpdateTime
        flux == FluxTable[spectrum][previousDataArray]
        sums == BandSums(features.melBands)
        energy == [b \in BandNames |-> Normalize(RawOf(sums, b), PeakOf(peaks', b))]
        centroid == Centroid(features.spectralCentroid)
        ks == KickSnare(flux, FluxThreshold(avgFlux'), centroid, energy["bass"], t,
                        kick.lastTime, snare.lastTime)
        m1 == ResetFlags(metrics)
    IN  /\ peaks' = [bass |-> PeakStep(peaks.bass, sums.bass),
                     mid |-> PeakStep(peaks.mid, sums.mid),
                     treble |-> PeakStep(peaks.treble, sums.treble)]
        /\ avgFlux' = Frac(avgFlux, 96, 100) + Frac(flux, 4, 100)
        /\ avgVol' = Frac(avgVol, 99, 100) + Frac(features.rms, 1, 100)
        /\ kick' = [kick EXCEPT !.lastTime = ks.kickLast]
        /\ snare' = [snare EXCEPT !.lastTime = ks.snareLast]
        /\ hits' = [b \in BandNames |-> HitStep(hits[b], energy[b], Cooldown(b), t)]
        /\ presence' = [b \in BandNames |-> PresenceStep(presence[b], energy[b])]
        /\ timers' = [b \in BandNames |->
                         (IF hits'[b].detected THEN 0 ELSE timers[b]) + deltaTime]
        /\ beatTracking' = UpdateBeatTracking(beatTracking, t, hits'["bass"].value)
        /\ lfoPhases' = UpdateLFOs(lfoPhases, beatTracking'.bpm, deltaTime)
        /\ rampPhases' = UpdateRamps(rampPhases, beatTracking'.bpm, deltaTime)
        /\ log' = Append(log, [t |-> t, raw |-> sums,
                               det |-> {b \in BandNames : hits'[b].detected},
                               beat |-> BeatAccepted(beatTracking, t, hits'["bass"].value),
                               bassHit |-> hits'["bass"].value])
        /\ metrics' = [m1 EXCEPT
              !.bass = energy["bass"],
              !.mid = energy["mid"],
              !.treble = energy["high"],
              !.vol = features.rms,
              !.centroid = centroid,
              !.isKick = m1.isKick \/ ks.isKick,
              !.isSnare = m1.isSnare \/ ks.isSnare,
              !.bassHit = hits'["bass"].value,
              !.midHit = hits'["mid"].value,
              !.highHit = hits'["high"].value,
              !.bassPresence = presence'["bass"],
              !.midPresence = presence'["mid"],
              !.highPresence = presence'["high"],
              !.bassTime = timers'["bass"],
              !.midTime = timers'["mid"],
              !.highTime = timers'["high"],
              !.bpm = beatTracking'.bpm,
              !.onBeat = (beatTracking'.onBeat * beatTracking'.confidence) \div SCALE,
              !.beatPhase = beatTracking'.beatPhase,
              !.lfo2 = LfoValue(lfoPhases'.lfo2),
              !.lfo4 = LfoValue(lfoPhases'.lfo4),
              !.lfo8 = LfoValue(lfoPhases'.lfo8),
              !.ramp2 = rampPhases'.ramp2,
              !.ramp4 = rampPhases'.ramp4,
              !.ramp8 = rampPhases'.ramp8]

\* mutant: the reset of the flags is done before the feature test
EarlyReturnAfterReset ==
    /\ lastOp' = "update:early"
    /\ metrics' = ResetFlags(metrics)
    /\ UNCHANGED << peaks, avgFlux, avgVol, kick, snare, hits, presence, timers,
                    beatTracking, lfoPhases, rampPhases, log >>

\* the return on an absent frame: nothing of the analysis is touched
EarlyReturn ==
    /\ lastOp' = "update:early"
    /\ UNCHANGED << peaks, avgFlux, avgVol, kick, snare, hits, presence, timers,
                    beatTracking, lfoPhases, rampPhases, metrics, log >>

\* update(), called dt after the operation before it, with the spectrum the
\* analyser holds and the frame meydaAnalyzer.get() returns
Update(spectrum, features, dt) ==
    /\ variant = "V7"
    /\ Clock(dt)
    /\ UNCHANGED << initPc, v5, v6, held, v1, tesseract >>
    /\ IF NotReady
       THEN /\ lastOp' = "update:noop"
            /\ UNCHANGED << v7vars, log >>
       ELSE /\ lastUpdateTime' = now'
            /\ previousDataArray' = spectrum
            /\ UNCHANGED << isInit, meydaAnalyzer >>
            /\ IF FeaturesAbsent(features)
               THEN EarlyReturn
               ELSE /\ lastOp' = "update:processed"
                    /\ Process(spectrum, features, now')

\* ----- V5: the onset analyzer (src/audio-engine.js) -------------------------
RECURSIVE SumBins(_, _, _)
\* the sum of data[i] for lo <= i <= hi (halving, to keep the evaluation shallow)
SumBins(data, lo, hi) ==
    IF lo > hi THEN 0
    ELSE IF lo = hi THEN data[lo]
    ELSE LET mid == (lo + hi) \div 2
         IN  SumBins(data, lo, mid) + SumBins(data, mid + 1, hi)

RECURSIVE WeightedBins(_, _, _)
\* the sum of i * data[i] for lo <= i <= hi
WeightedBins(data, lo, hi) ==
    IF lo > hi THEN 0
    ELSE IF lo = hi THEN lo * data[lo]
    ELSE LET mid == (lo + hi) \div 2
         IN  WeightedBins(data, lo, mid) + WeightedBins(data, mid + 1, hi)

\* a band level: the bytes of bins lo..hi, each / 255, summed, / divisor
BandLevel(data, lo, hi, divisor) == DivScale(SumBins(data, lo, hi), 255 * divisor)

\* total > 0 ? (weightedSum / total) / (bufferLength / 2) : 0
FftCentroid(data) ==
    LET total == SumBins(data, 0, BufferLength - 1)
        weighted == WeightedBins(data, 0, BufferLength - 1)
    IN  IF total > 0 THEN DivScale(weighted, total) \div (BufferLength \div 2) ELSE 0

\* this.bands and this.centroid of V5 for a spectrum
V5Bands(data) ==
    LET bassEnd == 5
        lowMidEnd == 12
        midEnd == 47
        highMidEnd == 186
    IN  [bass |-> BandLevel(data, 0, bassEnd, bassEnd + 1),
         lowMid |-> BandLevel(data, bassEnd + 1, lowMidEnd, lowMidEnd - bassEnd),
         mid |-> BandLevel(data, lowMidEnd + 1, midEnd, midEnd - lowMidEnd),
         highMid |-> BandLevel(data, midEnd + 1, highMidEnd, highMidEnd - midEnd),
         treble |-> BandLevel(data, highMidEnd + 1, BufferLength - 1,
                              BufferLength - highMidEnd),
         centroid |-> FftCentroid(data)]

\* the V5 band levels of every spectrum pattern, computed once
V5BandsTable ==
    [silence |-> V5Bands(SpectrumOf("silence")), kick |-> V5Bands(SpectrumOf("kick")),
     snare |-> V5Bands(SpectrumOf("snare")), full |-> V5Bands(SpectrumOf("full"))]

InitV5 ==
    [bands |-> [bass |-> 0, lowMid |-> 0, mid |-> 0, highMid |-> 0, treble |-> 0],
     centroid |-> 0,
     history |-> [bass |-> << 0, 0, 0 >>, mid |-> << 0, 0, 0 >>],
     kick |-> [detected |-> FALSE, lastTriggerTime |-> 0],
     snare |-> [detected |-> FALSE, lastTriggerTime |-> 0]]

\* (history[0] + history[1] + history[2]) / 3
HistoryAvg(h) == (h[1] + h[2] + h[3]) \div 3

\* history.shift(); history.push(energy)
HistoryPush(h, energy) == << h[2], h[3], energy >>

\* the kick test of V5: interval, onset, absolute energy, dark sound
V5KickTriggers(kickEnergy, kickAvg, centroid, t, lastTriggerTime) ==
    /\ t - lastTriggerTime > 150
    /\ Max(0, kickEnergy - kickAvg) > Frac(SCALE, 15, 100)
    /\ kickEnergy > Frac(SCALE, 25, 100)
    /\ centroid < Frac(SCALE, 40, 100)

\* mutant: the snare test without the kick lockout
V5SnareNoLockout(e, centroid, t, snareLast, kickLast, kickTriggered) ==
    /\ t - snareLast > 120
    /\ ~kickTriggered
    /\ Max(0, e.snare - e.avg) > Frac(SCALE, 12, 100)
    /\ e.snare > Frac(SCALE, 22, 100)
    /\ centroid > Frac(SCALE, 40, 100)
    /\ centroid < Frac(SCALE, 85, 100)
    /\ e.kick < Frac(e.snare, 8, 10)

\* the snare test of V5: interval, kick lockout, kick wins, onset, energy,
\* bright sound, quiet kick.  e is [snare, avg, kick]: snareEnergy, snareAvg
\* and kickEnergy; kickLast is this.kick.lastTriggerTime as the kick test left it.
V5SnareTriggers(e, centroid, t, snareLast, kickLast, kickTriggered) ==
    /\ t - snareLast > 120
    /\ t - kickLast > 100
    /\ ~kickTriggered
    /\ Max(0, e.snare - e.avg) > Frac(SCALE, 12, 100)
    /\ e.snare > Frac(SCALE, 22, 100)
    /\ centroid > Frac(SCALE, 40, 100)
    /\ centroid < Frac(SCALE, 85, 100)
    /\ e.kick < Frac(e.snare, 8, 10)

\* the V5 analyzer after update() at time t on a spectrum
V5Step(a, spectrum, t) ==
    LET b == V5BandsTable[spectrum]
        kickEnergy == Frac(b.bass, 15, 10) + b.lowMid
        kickTriggered == V5KickTriggers(kickEnergy, HistoryAvg(a.history.bass),
                                        b.centroid, t, a.kick.lastTriggerTime)
        kickLast == IF kickTriggered THEN t ELSE a.kick.lastTriggerTime
        snareEnergy == b.mid + Frac(b.highMid, 13, 10)
        snareTriggered ==
            V5SnareTriggers([snare |-> snareEnergy, avg |-> HistoryAvg(a.history.mid),
                             kick |-> kickEnergy],
                            b.centroid, t, a.snare.lastTriggerTime, kickLast,
                            kickTriggered)
    IN  [bands |-> [bass |-> b.bass, lowMid |-> b.lowMid, mid |-> b.mid,
                    highMid |-> b.highMid, treble |-> b.treble],
         centroid |-> b.centroid,
         history |-> [bass |-> HistoryPush(a.history.bass, kickEnergy),
                      mid |-> HistoryPush(a.history.mid, snareEnergy)],
         kick |-> [detected |-> kickTriggered, lastTriggerTime |-> kickLast],
         snare |-> [detected |-> snareTriggered,
                    lastTriggerTime |-> IF snareTriggered THEN t
                                        ELSE a.snare.lastTriggerTime]]

\* getMetrics() of V5: a fresh object
V5Metrics(a) ==
    [bass |-> a.bands.bass, mid |-> a.bands.mid, treble |-> a.bands.treble,
     centroid |-> a.centroid, isKick |-> a.kick.detected,
     isSnare |-> a.snare.detected]

\* update() of V5; this.analyser is set by the constructor, so it always runs
V5Update(spectrum, dt) ==
    /\ variant = "V5"
    /\ Clock(dt)
    /\ v5' = V5Step(v5, spectrum, now')
    /\ lastOp' = "update:processed"
    /\ UNCHANGED << initPc, v7vars, v6, held, v1, tesseract, log >>

\* ----- V6: the Meyda hybrid (src/audio-engine.js) ---------------------------
InitV6 ==
    [isInit |-> FALSE, meydaAnalyzer |-> "null", avgFlux |-> 0, avgVol |-> 0,
     kick |-> [detected |-> FALSE, lastTime |-> 0],
     snare |-> [detected |-> FALSE, lastTime |-> 0],
     metrics |-> [bass |-> 0, mid |-> 0, treble |-> 0, vol |-> 0, centroid |-> 0,
                  isKick |-> FALSE, isSnare |-> FALSE]]

\* a frame of the V6 extractor, which also asks for spectralFlux
V6Features(mel, rms, sc, sf) ==
    [kind |-> "frame", melBands |-> mel, rms |-> rms, spectralCentroid |-> sc,
     spectralFlux |-> sf]

\* this.metrics.isKick = false; this.metrics.isSnare = false
V6ResetFlags(m) == [m EXCEPT !.isKick = FALSE, !.isSnare = FALSE]

\* the trigger logic of V6: which flag this tick sets
V6KickSnare(spectralFlux, currentThreshold, centroid, t, kickLast, snareLast) ==
    LET isKick == /\ spectralFlux > currentThreshold
                  /\ centroid < Frac(SCALE, 35, 100)
                  /\ t - kickLast > 150
        isSnare == /\ spectralFlux > currentThreshold
                   /\ ~isKick
                   /\ centroid > Frac(SCALE, 35, 100)
                   /\ t - snareLast > 100
    IN  [isKick |-> isKick, isSnare |-> isSnare]

\* the V6 analyzer after update() got a frame at time t
V6Step(a, f, t) ==
    LET m == f.melBands
        bassSum == SumSeq(m, 0, 4) \div 4
        midSum == SumSeq(m, 4, 15) \div 11
        trebleSum == SumSeq(m, 15, Len(m)) \div (Len(m) - 15)
        m1 == [V6ResetFlags(a.metrics) EXCEPT
                  !.bass = Min(SCALE, bassSum \div 30),
                  !.mid = Min(SCALE, midSum \div 20),
                  !.treble = Min(SCALE, trebleSum \div 10),
                  !.vol = f.rms,
                  !.centroid = Min(SCALE, (f.spectralCentroid * SCALE) \div 100)]
        af == Frac(a.avgFlux, 96, 100) + Frac(f.spectralFlux, 4, 100)
        currentThreshold == Max(SCALE \div 2, Frac(af, 15, 10))
        ks == V6KickSnare(f.spectralFlux, currentThreshold, m1.centroid, t,
                          a.kick.lastTime, a.snare.lastTime)
    IN  [a EXCEPT
            !.avgFlux = af,
            !.avgVol = Frac(a.avgVol, 99, 100) + Frac(f.rms, 1, 100),
            !.kick.lastTime = IF ks.isKick THEN t ELSE @,
            !.snare.lastTime = IF ks.isSnare THEN t ELSE @,
            !.metrics = [m1 EXCEPT !.isKick = m1.isKick \/ ks.isKick,
                                   !.isSnare = m1.isSnare \/ ks.isSnare]]

\* init() of V6, from its call to the settling of getUserMedia
V6Init(granted, dt) ==
    /\ variant = "V6"
    /\ initPc = "new"
    /\ Clock(dt)
    /\ initPc' = IF granted THEN "ready" ELSE "failed"
    /\ v6' = IF granted THEN [v6 EXCEPT !.isInit = TRUE, !.meydaAnalyzer = "started"]
             ELSE v6
    /\ lastOp' = "init:settled"
    /\ UNCHANGED << v7vars, v5, held, v1, tesseract, log >>

\* update() of V6
V6Update(features, dt) ==
    /\ variant = "V6"
    /\ Clock(dt)
    /\ IF ~v6.isInit \/ v6.meydaAnalyzer = "null"
       THEN v6' = v6 /\ lastOp' = "update:noop"
       ELSE IF features.kind = "null"
            THEN v6' = v6 /\ lastOp' = "update:early"
            ELSE v6' = V6Step(v6, features, now') /\ lastOp' = "update:processed"
    /\ UNCHANGED << initPc, v7vars, v5, held, v1, tesseract, log >>

\* ----- the renderer's side of getMetrics() ----------------------------------
\* What getMetrics() returns: V6 and V7 return this.metrics itself, V5 builds
\* a new object.
MetricsObject ==
    CASE variant = "V7" -> metrics
      [] variant = "V6" -> v6.metrics
      [] variant = "V5" -> V5Metrics(v5)

GetMetricsResult ==
    IF variant = "V5" THEN [ref |-> "fresh", obj |-> V5Metrics(v5)]
    ELSE [ref |-> "this.metrics"]

\* the fields the renderer reads through a reference it holds
Read(h) == IF h.ref = "this.metrics" THEN MetricsObject ELSE h.obj

NothingHeld == [snapshot |-> [ref |-> "none"], seen |-> << >>]

\* the renderer calls getMetrics() and keeps the result; seen is what the
\* result's fields hold at the time of the call
GetMetrics ==
    /\ held' = [snapshot |-> GetMetricsResult, seen |-> MetricsObject]
    /\ lastOp' = "getMetrics"
    /\ UNCHANGED << now, variant, initPc, v7vars, v5, v6, v1, tesseract, log, steps >>

\* ----- V1: the three-band analyzer (src/audio-engine.js) -------------------
\* V1 (src/audio-engine.js): this.bands, this.level and this.centroid for a
\* spectrum; bins below bassBins are bass, below 90 mid, the others treble
V1Bands(data) ==
    LET bassBins == 12
    IN  [bass |-> BandLevel(data, 0, bassBins - 1, bassBins),
         mid |-> BandLevel(data, bassBins, 89, 90 - bassBins),
         treble |-> BandLevel(data, 90, BufferLength - 1, BufferLength - 90),
         level |-> BandLevel(data, 0, BufferLength - 1, BufferLength),
         centroid |-> FftCentroid(data)]

V1BandsTable ==
    [silence |-> V1Bands(SpectrumOf("silence")), kick |-> V1Bands(SpectrumOf("kick")),
     snare |-> V1Bands(SpectrumOf("snare")), full |-> V1Bands(SpectrumOf("full"))]

\* the fields of V1 after its constructor; spectrum is what dataArray holds
InitV1 ==
    [spectrum |-> "silence",
     bands |-> [bass |-> 0, mid |-> 0, treble |-> 0],
     level |-> 0, centroid |-> 0, isBeat |-> FALSE, currentThreshold |-> 0]

\* update() of V1 on a spectrum: band levels, then the beat logic
V1Step(a, spectrum) ==
    LET b == V1BandsTable[spectrum]
        beat == b.bass > a.currentThreshold /\ b.bass > Frac(SCALE, 15, 100)
        decayed == Frac(a.currentThreshold, 96, 100)
    IN  [spectrum |-> spectrum,
         bands |-> [bass |-> b.bass, mid |-> b.mid, treble |-> b.treble],
         level |-> b.level,
         centroid |-> b.centroid,
         isBeat |-> beat,
         currentThreshold |-> IF beat THEN Frac(b.bass, 15, 10)
                              ELSE Max(decayed, Frac(SCALE, 15, 100))]

V1Update(spectrum, dt) ==
    /\ variant = "V1"
    /\ Clock(dt)
    /\ v1' = V1Step(v1, spectrum)
    /\ lastOp' = "update:processed"
    /\ UNCHANGED << initPc, v7vars, v5, v6, held, tesseract, log >>

\* ----- the Tesseract renderer (src/tesseract-viz.js) -------------------------
\* activePlanes and lastBeatTime after the constructor; switches counts the
\* calls of switchRotationPlanes.  The rotation angles and the drawing are
\* left out.
InitTesseract ==
    [activePlanes |-> << "xy", "xw" >>, lastBeatTime |-> 0, switches |-> 0]

PlaneOptions ==
    << << "xy", "zw" >>, << "xw", "yz" >>, << "xz", "yw" >>,
       << "xy", "xw" >>, << "yz", "zw" >>, << "xw", "zw" >> >>

\* switchRotationPlanes(metrics): the pair at floor(beatPhase * 6) % 6
SwitchRotationPlanes(m) ==
    PlaneOptions[(((m.beatPhase * Len(PlaneOptions)) \div SCALE) % Len(PlaneOptions)) + 1]

\* metrics.bassHit > 0.9 && metrics.bassPresence > 0.7
ShiftWanted(m) ==
    m.bassHit > Frac(SCALE, 9, 10) /\ m.bassPresence > Frac(SCALE, 7, 10)

\* the renderer's fields after animate(m) at time t
AnimateStep(a, m, t) ==
    IF ShiftWanted(m) /\ t - a.lastBeatTime > 2000
    THEN [activePlanes |-> SwitchRotationPlanes(m), lastBeatTime |-> t,
          switches |-> a.switches + 1]
    ELSE a

\* animate(analyzer.getMetrics()), called dt after the operation before it
Animate(dt) ==
    /\ variant = "V7"
    /\ Clock(dt)
    /\ tesseract' = AnimateStep(tesseract, metrics, now')
    /\ lastOp' = "animate"
    /\ UNCHANGED << initPc, v7vars, v5, v6, held, v1, log >>

\* ----- initial states -------------------------------------------------------
\* one analyzer of the given class, constructed at time origin
Constructed(v) ==
    /\ now = 0
    /\ variant = v
    /\ initPc = "new"
    /\ V7Constructed(0)
    /\ v5 = InitV5
    /\ v6 = InitV6
    /\ held = NothingHeld
    /\ v1 = InitV1
    /\ tesseract = InitTesseract
    /\ log = << >>
    /\ steps = 0
    /\ lastOp = "constructed"

\* ----- kick and snare (C1) --------------------------------------------------
\* the number of operations of a run of SpecKickSnare
MaxStepsKickSnare == 6

\* a dark frame with bass energy and a bright frame
DarkFrame == Features(MelFrame(2 * SCALE, 0, 0), SCALE \div 2, 300)
BrightFrame == Features(MelFrame(0, 0, SCALE), SCALE \div 2, 9000)

V6DarkFrame == V6Features(MelFrame(40 * SCALE, 0, 0), SCALE \div 2, 20, 3 * SCALE)
V6BrightFrame == V6Features(MelFrame(0, 0, 10 * SCALE), SCALE \div 2, 60, 3 * SCALE)

InitKickSnare == \E v \in {"V5", "V6", "V7"} : Constructed(v)

NextKickSnare ==
    \/ \E dt \in {10} : steps < MaxStepsKickSnare /\ InitCall(FALSE, dt)
    \/ \E dt \in {10} : steps < MaxStepsKickSnare /\ InitGranted("ok", dt)
    \/ \E s \in {"silence", "kick"}, f \in {DarkFrame, BrightFrame}, dt \in {60, 160} :
          steps < MaxStepsKickSnare /\ Update(s, f, dt)
    \/ \E s \in {"silence", "kick", "snare"}, dt \in {100, 160} :
          steps < MaxStepsKickSnare /\ V5Update(s, dt)
    \/ \E dt \in {10} : steps < MaxStepsKickSnare /\ V6Init(TRUE, dt)
    \/ \E f \in {V6DarkFrame, V6BrightFrame, NoFeatures}, dt \in {60, 160} :
          steps < MaxStepsKickSnare /\ V6Update(f, dt)

SpecKickSnare == InitKickSnare /\ [][NextKickSnare]_vars

\* C1: in V5, V6 and V7 the snapshot never has isKick and isSnare both true.
KickSnareExclusive ==
    /\ ~(metrics.isKick /\ metrics.isSnare)
    /\ ~(v6.metrics.isKick /\ v6.metrics.isSnare)
    /\ ~(V5Metrics(v5).isKick /\ V5Metrics(v5).isSnare)

\* a V7 tick that set isSnare on an analyzer that has set isKick before
KickThenSnare ==
    /\ variant = "V7"
    /\ lastOp = "update:processed"
    /\ metrics.isSnare
    /\ kick.lastTime > 0

\* ----- the life cycle of the V7 analyzer (C2, C3, C4) -----------------------
\* the number of operations of a run of SpecLifecycle
MaxStepsLifecycle == 5

NextLifecycle ==
    \/ \E suspended \in BOOLEAN, dt \in {10} :
          steps < MaxStepsLifecycle /\ InitCall(suspended, dt)
    \/ \E ok \in BOOLEAN, dt \in {10} :
          steps < MaxStepsLifecycle /\ InitResumed(ok, dt)
    \/ \E outcome \in {"ok", "create", "start"}, dt \in {10} :
          steps < MaxStepsLifecycle /\ InitGranted(outcome, dt)
    \/ \E dt \in {10} : steps < MaxStepsLifecycle /\ InitRejected(dt)
    \/ \E s \in {"silence", "kick"},
          f \in {NoFeatures, NoMelFeatures, DarkFrame, BrightFrame},
          dt \in {20, 170} :
          steps < MaxStepsLifecycle /\ Update(s, f, dt)
    \/ GetMetrics

SpecLifecycle == Constructed("V7") /\ [][NextLifecycle]_vars

\* C2: while init() has not completed, and after it has failed, update() leaves
\* the snapshot the all-zero initial snapshot and the analyzer not initialized.
InertWithoutInit == (initPc # "ready") => (metrics = InitMetrics /\ ~isInit)

\* update() was called on an analyzer whose init() failed with the extractor
\* created but not started
UpdateAfterFailedInit ==
    /\ initPc = "failed"
    /\ meydaAnalyzer = "created"
    /\ lastOp = "update:noop"

\* C3: an update() that returns early on an absent feature frame leaves every
\* field of the metrics snapshot as it was.
AbsentFrameKeepsMetrics == [][lastOp' = "update:early" => metrics' = metrics]_vars

\* an early return on an analyzer whose snapshot holds a kick flag
EarlyReturnWithKick == lastOp = "update:early" /\ metrics.isKick

\* C4: the fields read through a snapshot obtained from getMetrics() stay what
\* they were when it was obtained.
SnapshotImmutable ==
    (held.snapshot.ref # "none") => (Read(held.snapshot) = held.seen)

\* ----- the ranges of the published values (C5) ------------------------------
\* the number of operations of a run of SpecRanges
MaxStepsRanges == 9

\* a silent frame, and a frame with 3.0 on the low bands, 0.5 on the middle
\* bands and 40.0 on the top bands
QuietFrame == Features(MelFrame(0, 0, 0), 0, 0)
LoudFrame == Features(MelFrame(3 * SCALE, SCALE \div 2, 40 * SCALE), SCALE \div 2, 2000)

NextRanges ==
    \/ \E dt \in {10} : steps < MaxStepsRanges /\ InitCall(FALSE, dt)
    \/ \E dt \in {10} : steps < MaxStepsRanges /\ InitGranted("ok", dt)
    \/ \E f \in {QuietFrame, LoudFrame}, dt \in {0, 260} :
          steps < MaxStepsRanges /\ Update("silence", f, dt)

SpecRanges == Constructed("V7") /\ [][NextRanges]_vars

\* C5: the band energies lie in [0,1], the ramps in [0,1) and the LFOs in
\* [0,1], whatever the frames, the tick spacing and the tempo found.
RangesHold ==
    /\ \A f \in {"bass", "mid", "treble", "lfo2", "lfo4", "lfo8"} :
          metrics[f] >= 0 /\ metrics[f] <= SCALE
    /\ \A f \in {"ramp2", "ramp4", "ramp8"} :
          metrics[f].m >= 0 /\ FBelowOne(metrics[f])

\* a processed tick of a loud frame, more than a cycle of every ramp after
\* init(), with a tempo other than the default found
LoudTickWithTempo ==
    /\ lastOp = "update:processed"
    /\ metrics.bass = SCALE
    /\ metrics.treble = SCALE
    /\ metrics.mid > 0
    /\ metrics.bpm > 0
    /\ metrics.bpm # 120
    /\ now > 20 + 1000

\* ----- transients on the bands of the hit detector (C6, C7) -----------------
\* the number of operations of a run of SpecTransients
MaxStepsTransients == 8

\* one tick of 3.0 on the low bands, and one tick of 3.0 on the top bands
BassImpulse == Features(MelFrame(3 * SCALE, 0, 0), SCALE \div 2, 300)
HighImpulse == Features(MelFrame(0, 0, 3 * SCALE), SCALE \div 2, 9000)

NextTransients ==
    \/ \E dt \in {10} : steps < MaxStepsTransients /\ InitCall(FALSE, dt)
    \/ \E dt \in {10} : steps < MaxStepsTransients /\ InitGranted("ok", dt)
    \/ \E f \in {QuietFrame, BassImpulse, HighImpulse}, dt \in {50, 70} :
          steps < MaxStepsTransients /\ Update("silence", f, dt)

SpecTransients == Constructed("V7") /\ [][NextTransients]_vars

\* the processed ticks whose frame has energy on band b, the processed ticks
\* with any energy, and the ticks at which band b was detected
LoudTicks(b) == {i \in 1 .. Len(log) : RawOf(log[i].raw, b) > 0}
SoundTicks == UNION {LoudTicks(b) : b \in BandNames}
DetectedTicks(b) == {i \in 1 .. Len(log) : b \in log[i].det}

\* C6: a run whose only sound is one tick of energy on one band, ticks closer
\* than the cooldown, has that band detected on exactly one tick and never on
\* two ticks in a row.
SingleTransientOnePulse ==
    \A b \in BandNames :
        (Cardinality(SoundTicks) = 1 /\ Cardinality(LoudTicks(b)) = 1)
        => /\ Cardinality(DetectedTicks(b)) = 1
           /\ \A i \in DetectedTicks(b) : i + 1 \notin DetectedTicks(b)

\* C7: two transients on a band less than its cooldown apart give one detected
\* tick, two more than the cooldown apart with silence between give two, and
\* two detected ticks of a band are always more than the cooldown apart.
CooldownEnforced ==
    \A b \in BandNames :
        /\ \A i, j \in DetectedTicks(b) :
              i < j => log[j].t - log[i].t > Cooldown(b)
        /\ \A i, j \in 1 .. Len(log) :
              (i < j /\ SoundTicks = {i, j} /\ LoudTicks(b) = {i, j})
              => /\ (log[j].t - log[i].t < Cooldown(b))
                       => Cardinality(DetectedTicks(b)) = 1
                 /\ (log[j].t - log[i].t > Cooldown(b) /\ j > i + 1)
                       => Cardinality(DetectedTicks(b)) = 2

\* ----- the beat tracker fed directly (C8, C9) -------------------------------
\* updateBeatTracking(now, bassEnergy, bassHit), called dt after the operation
\* before it
FeedBeatTracker(bassHit, dt) ==
    /\ variant = "V7"
    /\ Clock(dt)
    /\ beatTracking' = UpdateBeatTracking(beatTracking, now', bassHit)
    /\ metrics' = [metrics EXCEPT
          !.bpm = beatTracking'.bpm,
          !.onBeat = (beatTracking'.onBeat * beatTracking'.confidence) \div SCALE,
          !.beatPhase = beatTracking'.beatPhase]
    /\ log' = Append(log, [t |-> now',
                           beat |-> BeatAccepted(beatTracking, now', bassHit),
                           bassHit |-> bassHit])
    /\ lastOp' = "updateBeatTracking"
    /\ UNCHANGED << initPc, isInit, meydaAnalyzer, lastUpdateTime, previousDataArray,
                    peaks, avgFlux, avgVol, kick, snare, hits, presence, timers,
                    lfoPhases, rampPhases, v5, v6, held, v1, tesseract >>

\* the number of calls of a run of SpecBeatTracker
MaxStepsBeats == 6

NextBeatTracker ==
    \E bassHit \in {Frac(SCALE, 8, 10), Frac(SCALE, 85, 100)}, dt \in {125, 250, 500} :
        steps < MaxStepsBeats /\ FeedBeatTracker(bassHit, dt)

SpecBeatTracker == Constructed("V7") /\ [][NextBeatTracker]_vars

\* the ticks that carried a bass hit above 0.8, and whether they form a train
\* of at least five hits 500 ms apart
HitTicks == {i \in 1 .. Len(log) : log[i].bassHit > Frac(SCALE, 8, 10)}
HitTrain500 ==
    /\ Cardinality(HitTicks) >= 5
    /\ \A i, j \in HitTicks :
          (i < j /\ \A k \in HitTicks : ~(i < k /\ k < j)) => log[j].t - log[i].t = 500

\* C8: after a train of at least five bass hits 500 ms apart the tempo is
\* within 2 of 120 and the confidence is above 0.9.
TrainGives120 ==
    HitTrain500 => /\ beatTracking.bpm >= 118
                   /\ beatTracking.bpm <= 122
                   /\ metrics.bpm = beatTracking.bpm
                   /\ beatTracking.confidence > Frac(SCALE, 9, 10)

\* a train of five hits whose first hit, 125 ms after time 0, was rejected
TrainWithRejectedFirstHit == HitTrain500 /\ Len(beatTracking.beatHistory) = 4

\* the tick just made accepted a beat
BeatTick == log' # log /\ log'[Len(log')].beat
\* whole beat intervals between the last accepted beat and the last tick
WholeIntervals ==
    LET t == IF log = << >> THEN 0 ELSE log[Len(log)].t
    IN  ((t - beatTracking.lastBeatTime) * beatTracking.beatInterval.den)
            \div beatTracking.beatInterval.num

\* C9 as stated: beatPhase is 0 on a tick that accepts a beat and does not
\* drop on a tick that accepts none, once a first beat was accepted.
BeatPhaseDropsOnlyAtBeats ==
    [][(log' # log) =>
          IF BeatTick THEN beatTracking'.beatPhase = 0
          ELSE (beatTracking.beatHistory # << >>)
                  => beatTracking'.beatPhase >= beatTracking.beatPhase]_vars

\* C9: beatPhase is 0 on a tick that accepts a beat, and on a tick that accepts
\* none it does not drop unless a whole beat interval was completed since the
\* tick before.
BeatPhaseWrapsOnInterval ==
    [][(log' # log) =>
          IF BeatTick THEN beatTracking'.beatPhase = 0
          ELSE (WholeIntervals' = WholeIntervals)
                  => beatTracking'.beatPhase >= beatTracking.beatPhase]_vars

\* a tick without a beat, more than one beat interval after the last of four
\* accepted beats
FreeRunningPhase ==
    /\ Len(beatTracking.beatHistory) >= 4
    /\ WholeIntervals >= 1
    /\ beatTracking.beatPhase > 0

\* ----- the oscillators fed directly (C10) -----------------------------------
\* updateLFOs(deltaTime); updateRamps(deltaTime), called with the time that
\* passed since the operation before
TickOscillators(deltaTime) ==
    /\ variant = "V7"
    /\ Clock(deltaTime)
    /\ lfoPhases' = UpdateLFOs(lfoPhases, beatTracking.bpm, deltaTime)
    /\ rampPhases' = UpdateRamps(rampPhases, beatTracking.bpm, deltaTime)
    /\ metrics' = [metrics EXCEPT
          !.lfo2 = LfoValue(lfoPhases'.lfo2),
          !.lfo4 = LfoValue(lfoPhases'.lfo4),
          !.lfo8 = LfoValue(lfoPhases'.lfo8),
          !.ramp2 = rampPhases'.ramp2,
          !.ramp4 = rampPhases'.ramp4,
          !.ramp8 = rampPhases'.ramp8]
    /\ log' = Append(log, [t |-> now', deltaTime |-> deltaTime])
    /\ lastOp' = "updateOscillators"
    /\ UNCHANGED << initPc, isInit, meydaAnalyzer, lastUpdateTime, previousDataArray,
                    peaks, avgFlux, avgVol, kick, snare, hits, presence, timers,
                    beatTracking, v5, v6, held, v1, tesseract >>

\* the number of calls of a run of SpecOscillators
MaxStepsOscillators == 6

NextOscillators ==
    \E deltaTime \in {0, 100, 200, 500, 1000} :
        steps < MaxStepsOscillators /\ TickOscillators(deltaTime)

SpecOscillators == Constructed("V7") /\ [][NextOscillators]_vars

RECURSIVE Replay(_, _, _)
\* the oscillator phases of a fresh instance fed the deltaTimes ds[i .. ]
Replay(ph, ds, i) ==
    IF i > Len(ds) THEN ph
    ELSE Replay([lfo |-> UpdateLFOs(ph.lfo, InitBeatTracking.bpm, ds[i]),
                 ramp |-> UpdateRamps(ph.ramp, InitBeatTracking.bpm, ds[i])], ds, i + 1)

FreshPhases ==
    [lfo |-> [lfo2 |-> FZero, lfo4 |-> FZero, lfo8 |-> FZero],
     ramp |-> [ramp2 |-> FZero, ramp4 |-> FZero, ramp8 |-> FZero]]

\* the deltaTimes fed so far
DeltaTimes == [i \in 1 .. Len(log) |-> log[i].deltaTime]

\* C10: a fresh instance fed the same deltaTimes has the same ramp4 and lfo4
\* at this tick, and a fresh instance fed their total in one tick has the same
\* ramp4 phase.
OscillatorsFollowElapsedTime ==
    (log # << >>) =>
        /\ Replay(FreshPhases, DeltaTimes, 1).ramp.ramp4 = metrics.ramp4
        /\ LfoValue(Replay(FreshPhases, DeltaTimes, 1).lfo.lfo4) = metrics.lfo4
        /\ Replay(FreshPhases, << now >>, 1).ramp.ramp4 = metrics.ramp4

\* ----- presence (C11) -------------------------------------------------------
\* the energy and the presence a snapshot publishes for a band
EnergyIn(m, b) == CASE b = "bass" -> m.bass [] b = "mid" -> m.mid [] b = "high" -> m.treble
PresenceIn(m, b) ==
    CASE b = "bass" -> m.bassPresence [] b = "mid" -> m.midPresence
      [] b = "high" -> m.highPresence

\* C11: on every processed tick each presence is 0.98 of what it was plus 0.02
\* of the band's energy (to the last digit kept), it stays in [0,1], and a
\* first tick of energy 1 on a presence of 0 gives 0.02.
PresenceBlends ==
    /\ [](\A b \in BandNames :
             /\ presence[b] >= 0 /\ presence[b] <= SCALE
             /\ PresenceIn(metrics, b) = presence[b])
    /\ [][(lastOp' = "update:processed") =>
             \A b \in BandNames :
                /\ 100 * presence'[b] <= 98 * presence[b] + 2 * EnergyIn(metrics', b)
                /\ 100 * presence'[b] > 98 * presence[b] + 2 * EnergyIn(metrics', b) - 200
                /\ (presence[b] = 0 /\ EnergyIn(metrics', b) = SCALE)
                      => presence'[b] = Frac(SCALE, 2, 100)]_vars

\* a second tick of full bass energy: the presence is 0.98 * 0.02 + 0.02
PresenceAfterTwoLoudTicks ==
    /\ lastOp = "update:processed"
    /\ metrics.bass = SCALE
    /\ presence["bass"] = Frac(Frac(SCALE, 2, 100), 98, 100) + Frac(SCALE, 2, 100)

\* ----- edge flags (C12) -----------------------------------------------------
\* the step is a call of update()
UpdateCalled ==
    steps' # steps /\ lastOp' \in {"update:noop", "update:early", "update:processed"}

\* C12: a flag that is set before a call of update() made less than the
\* detector's cooldown after the call before it is not set after that call,
\* whatever the call's input.
EdgeFlagsLastOneTick ==
    [][UpdateCalled =>
          /\ (metrics.isKick /\ now' - now < 150) => ~metrics'.isKick
          /\ (metrics.isSnare /\ now' - now < 100) => ~metrics'.isSnare
          /\ \A b \in BandNames :
                (hits[b].detected /\ now' - now < Cooldown(b)) => ~hits'[b].detected]_vars

\* ----- the snare after a kick (C13, C14) ------------------------------------
\* C13: in the V7 analyzer a tick that sets isSnare is more than 100 ms after
\* the latest tick that set isKick.
SnareLockedOutAfterKick ==
    (/\ variant = "V7"
     /\ lastOp = "update:processed"
     /\ metrics.isSnare
     /\ kick.lastTime > 0)
    => now - kick.lastTime > 100


\* C14: in the V5 analyzer a tick that sets snare.detected did not trigger the
\* kick and is more than 100 ms after the latest kick trigger.
V5SnareLockedOut ==
    (variant = "V5" /\ v5.snare.detected)
    => /\ ~v5.kick.detected
       /\ now - v5.kick.lastTriggerTime > 100

\* a tick at most 100 ms after a kick trigger on which the snare's interval,
\* onset, energy, brightness and quiet-kick tests pass and no snare is set
V5SnareHeldBack ==
    /\ variant = "V5"
    /\ v5.kick.lastTriggerTime > 0
    /\ now > v5.kick.lastTriggerTime
    /\ now - v5.kick.lastTriggerTime <= 100
    /\ now - v5.snare.lastTriggerTime > 120
    /\ v5.history.mid[1] = 0 /\ v5.history.mid[2] = 0
    /\ v5.history.mid[3] > Frac(SCALE, 22, 100)
    /\ v5.centroid > Frac(SCALE, 40, 100)
    /\ v5.centroid < Frac(SCALE, 85, 100)
    /\ v5.history.bass[3] < Frac(v5.history.mid[3], 8, 10)
    /\ ~v5.snare.detected


\* ----- the cooldowns of kick and snare (C15) --------------------------------
\* a trigger of the first detector at time t: its stamp becomes t, it was more
\* than its cooldown ago, and the stamp of the other detector is left alone
StampedAlone(last, lastAfter, other, otherAfter, t, cooldown) ==
    (lastAfter # last) =>
        /\ lastAfter = t
        /\ t - last > cooldown
        /\ otherAfter = other

\* C15: in the flux classifier of V7 and of V6 two kick triggers are more than
\* 150 ms apart, two snare triggers more than 100 ms apart, and a trigger of
\* one leaves the timestamp of the other as it was.
CooldownsIndependent ==
    [][/\ StampedAlone(kick.lastTime, kick'.lastTime,
                       snare.lastTime, snare'.lastTime, now', 150)
       /\ StampedAlone(snare.lastTime, snare'.lastTime,
                       kick.lastTime, kick'.lastTime, now', 100)
       /\ StampedAlone(v6.kick.lastTime, v6'.kick.lastTime,
                       v6.snare.lastTime, v6'.snare.lastTime, now', 150)
       /\ StampedAlone(v6.snare.lastTime, v6'.snare.lastTime,
                       v6.kick.lastTime, v6'.kick.lastTime, now', 100)
       /\ (lastOp' = "update:processed") =>
             /\ metrics'.isKick = (kick'.lastTime # kick.lastTime)
             /\ metrics'.isSnare = (snare'.lastTime # snare.lastTime)]_vars

\* a snare trigger less than 100 ms after a kick trigger, the kick's stamp kept
SnareSoonAfterKick ==
    /\ variant = "V7"
    /\ metrics.isSnare
    /\ snare.lastTime = now
    /\ kick.lastTime > 0
    /\ now - kick.lastTime < 100


\* ----- the beat history over long runs (C16, C17, C19, C20) -----------------
\* the number of calls of a run of SpecBeatHistory
MaxStepsHistory == 10

\* a bass hit 200 ms or 250 ms after the call before it, or a call without a
\* hit after 250 ms
NextBeatHistory ==
    \E c \in {<< 85, 200 >>, << 85, 250 >>, << 80, 250 >>} :
        steps < MaxStepsHistory /\ FeedBeatTracker(Frac(SCALE, c[1], 100), c[2])

SpecBeatHistory == Constructed("V7") /\ [][NextBeatHistory]_vars

\* the times of the accepted beats of the run, oldest first
RECURSIVE AcceptedTimes(_)
AcceptedTimes(l) ==
    IF l = << >> THEN << >>
    ELSE LET rest == AcceptedTimes(SubSeq(l, 1, Len(l) - 1))
             last == l[Len(l)]
         IN  IF last.beat THEN Append(rest, last.t) ELSE rest

\* the last n elements of a sequence (all of it when it is shorter)
LastOf(s, n) == SubSeq(s, Max(1, Len(s) - n + 1), Len(s))

\* C16: beatHistory holds at most 8 timestamps, strictly increasing, its last
\* element is lastBeatTime when it is not empty, and it is the last 8 accepted
\* beats: the ninth accepted beat evicts the oldest.
BeatHistoryBounded ==
    LET h == beatTracking.beatHistory
    IN  /\ Len(h) <= 8
        /\ \A i \in 1 .. Len(h) - 1 : h[i] < h[i + 1]
        /\ (h # << >>) => h[Len(h)] = beatTracking.lastBeatTime
        /\ h = LastOf(AcceptedTimes(log), 8)

\* nine beats were accepted and the first of them is gone from the history
NinthBeatEvicted ==
    /\ Len(AcceptedTimes(log)) = 9
    /\ Len(beatTracking.beatHistory) = 8
    /\ beatTracking.beatHistory[1] = AcceptedTimes(log)[2]


\* the call just made carried a bass hit above 0.8 no more than 200 ms after
\* the last accepted beat
DoubleTrigger ==
    /\ log' # log
    /\ log'[Len(log')].bassHit > Frac(SCALE, 8, 10)
    /\ now' - beatTracking.lastBeatTime <= 200

\* C17: consecutive timestamps of beatHistory are more than 200 ms apart, and
\* a bass hit above 0.8 that comes 200 ms or less after lastBeatTime leaves
\* beatHistory, lastBeatTime, beatInterval, bpm and confidence as they were.
DoubleTriggersRejected ==
    /\ [](\A i \in 1 .. Len(beatTracking.beatHistory) - 1 :
             beatTracking.beatHistory[i + 1] - beatTracking.beatHistory[i] > 200)
    /\ [][DoubleTrigger =>
             /\ beatTracking'.beatHistory = beatTracking.beatHistory
             /\ beatTracking'.lastBeatTime = beatTracking.lastBeatTime
             /\ beatTracking'.beatInterval = beatTracking.beatInterval
             /\ beatTracking'.bpm = beatTracking.bpm
             /\ beatTracking'.confidence = beatTracking.confidence
             /\ metrics'.bpm = metrics.bpm]_vars

\* the last call carried a hit exactly 200 ms after an accepted beat, with a
\* tempo already estimated, and was not accepted
HitRejectedAt200 ==
    /\ log # << >>
    /\ log[Len(log)].bassHit > Frac(SCALE, 8, 10)
    /\ ~log[Len(log)].beat
    /\ beatTracking.bpm > 0
    /\ now - beatTracking.lastBeatTime = 200


\* ----- beats and bass triggers in the whole update (C18) --------------------
\* C18: a timestamp is pushed to beatHistory only on a processed tick whose
\* bass hit detector triggered on that tick: the published bassHit is 0.85 on
\* a trigger and at most 0.7225, never above 0.8, on every other tick.
BeatsOnlyOnBassTriggers ==
    /\ beatTracking.beatHistory = LastOf(AcceptedTimes(log), 8)
    /\ \A i \in 1 .. Len(log) :
          /\ log[i].beat => "bass" \in log[i].det
          /\ ("bass" \in log[i].det) => log[i].bassHit = Frac(SCALE, 85, 100)
          /\ ("bass" \notin log[i].det) => log[i].bassHit <= Frac(SCALE, 7225, 10000)

\* the tick after a bass trigger that was accepted as a beat: the decayed hit
\* value of 0.7225 comes more than 200 ms after the beat and pushes nothing
DecayedTailPushesNothing ==
    /\ Len(log) >= 2
    /\ log[Len(log) - 1].beat
    /\ log[Len(log)].bassHit = Frac(SCALE, 7225, 10000)
    /\ log[Len(log)].t - beatTracking.lastBeatTime > 200
    /\ beatTracking.lastBeatTime = log[Len(log) - 1].t
    /\ ~log[Len(log)].beat


\* ----- the tempo estimate (C19) ---------------------------------------------
\* b = Math.round(60000 / (num / den))
IsRounded(b, num, den) ==
    /\ 2 * b * num <= 2 * 60000 * den + num
    /\ 2 * b * num > 2 * 60000 * den - num

\* C19: bpm is 0, confidence 0 and beatInterval 500 until the fourth beat is
\* accepted; from then on beatInterval is the mean of the consecutive gaps of
\* beatHistory and bpm is round(60000 / beatInterval); a call that accepts no
\* beat leaves bpm, beatInterval and confidence as they were.
TempoFromFourthBeat ==
    /\ [](LET h == beatTracking.beatHistory
              bi == beatTracking.beatInterval
          IN  IF Len(AcceptedTimes(log)) < 4
              THEN /\ beatTracking.bpm = 0
                   /\ beatTracking.confidence = 0
                   /\ bi.num = 500 * bi.den
              ELSE /\ bi.num * (Len(h) - 1) = (h[Len(h)] - h[1]) * bi.den
                   /\ IsRounded(beatTracking.bpm, bi.num, bi.den)
                   /\ metrics.bpm = beatTracking.bpm)
    /\ [][~BeatTick =>
             /\ beatTracking'.bpm = beatTracking.bpm
             /\ beatTracking'.beatInterval = beatTracking.beatInterval
             /\ beatTracking'.confidence = beatTracking.confidence]_vars

\* four beats accepted with unequal gaps, their mean not a whole number of
\* milliseconds, and a later call that accepted none
FourthBeatSetsTempo ==
    /\ Len(AcceptedTimes(log)) = 4
    /\ ~log[Len(log)].beat
    /\ beatTracking.beatInterval.num % beatTracking.beatInterval.den # 0
    /\ beatTracking.bpm > 0


\* ----- the ranges of the beat tracker (C20) ---------------------------------
\* C20: in every state of the beat tracker beatInterval is above 0, beatPhase
\* is in [0, 1), confidence in [0, 1] and the published onBeat in [0, 1].
BeatTrackerInRange ==
    /\ beatTracking.beatInterval.den > 0
    /\ beatTracking.beatInterval.num > 0
    /\ beatTracking.beatPhase >= 0
    /\ beatTracking.beatPhase < SCALE
    /\ beatTracking.confidence >= 0
    /\ beatTracking.confidence <= SCALE
    /\ metrics.onBeat >= 0
    /\ metrics.onBeat <= SCALE
    /\ metrics.beatPhase = beatTracking.beatPhase

\* an estimated tempo from uneven beats, the call falling in the second
\* quarter of the beat cycle, where the cosine is negative
MidCycleWithUnevenBeats ==
    /\ beatTracking.bpm > 0
    /\ beatTracking.confidence > 0
    /\ beatTracking.confidence < SCALE
    /\ beatTracking.beatPhase > SCALE \div 4
    /\ beatTracking.beatPhase < SCALE \div 2
    /\ metrics.onBeat > 0


\* ----- the ramps behind the beat tracker (C21) ------------------------------
\* the end of update(): updateBeatTracking(now, bass, bassHit), then
\* updateLFOs(deltaTime) and updateRamps(deltaTime), deltaTime after the
\* operation before
TrackAndOscillate(bassHit, deltaTime) ==
    /\ variant = "V7"
    /\ Clock(deltaTime)
    /\ beatTracking' = UpdateBeatTracking(beatTracking, now', bassHit)
    /\ lfoPhases' = UpdateLFOs(lfoPhases, beatTracking'.bpm, deltaTime)
    /\ rampPhases' = UpdateRamps(rampPhases, beatTracking'.bpm, deltaTime)
    /\ metrics' = [metrics EXCEPT
          !.bpm = beatTracking'.bpm,
          !.onBeat = (beatTracking'.onBeat * beatTracking'.confidence) \div SCALE,
          !.beatPhase = beatTracking'.beatPhase,
          !.lfo2 = LfoValue(lfoPhases'.lfo2),
          !.lfo4 = LfoValue(lfoPhases'.lfo4),
          !.lfo8 = LfoValue(lfoPhases'.lfo8),
          !.ramp2 = rampPhases'.ramp2,
          !.ramp4 = rampPhases'.ramp4,
          !.ramp8 = rampPhases'.ramp8]
    /\ log' = Append(log, [t |-> now', deltaTime |-> deltaTime,
                           beat |-> BeatAccepted(beatTracking, now', bassHit),
                           bassHit |-> bassHit])
    /\ lastOp' = "update:tail"
    /\ UNCHANGED << initPc, isInit, meydaAnalyzer, lastUpdateTime, previousDataArray,
                    peaks, avgFlux, avgVol, kick, snare, hits, presence, timers,
                    v5, v6, held, v1, tesseract >>

\* the number of calls of a run of SpecRamps
MaxStepsRamps == 7

\* bass hits 250 and 500 ms apart, calls without a hit after 250 and 1000 ms
NextRamps ==
    \E c \in {<< 85, 250 >>, << 85, 500 >>, << 80, 250 >>, << 80, 1000 >>} :
        steps < MaxStepsRamps /\ TrackAndOscillate(Frac(SCALE, c[1], 100), c[2])

SpecRamps == Constructed("V7") /\ [][NextRamps]_vars

\* 1/1024ths of a cycle that a ramp of the divisor gains in deltaTime ms at bpm
RampGain(bpm, divisor, deltaTime) ==
    ((IF bpm > 0 THEN bpm ELSE 120) * deltaTime * 1024) \div (60000 * divisor)

\* the largest error of a ramp step, in 1/1024ths of a cycle
RampTolerance == 8

\* phase after is phase before plus the gain, modulo one cycle
RampAdvanced(before, after, bpm, divisor, deltaTime) ==
    LET d == (FMilli(after) - FMilli(before) - RampGain(bpm, divisor, deltaTime)) % 1024
    IN  d <= RampTolerance \/ d >= 1024 - RampTolerance

\* C21: on every tick each ramp gains (bpm/60)/divisor * deltaSeconds modulo 1
\* for the divisors 2, 4 and 8, with the tracked bpm or 120 when it is 0; with
\* no tempo 1000 ms carry ramp2 through a whole cycle, ramp4 through half of
\* one and ramp8 through a quarter.
RampsAdvanceWithTempo ==
    [][(log' # log) =>
          LET dt == log'[Len(log')].deltaTime
              bpm == beatTracking'.bpm
          IN  /\ RampAdvanced(rampPhases.ramp2, rampPhases'.ramp2, bpm, 2, dt)
              /\ RampAdvanced(rampPhases.ramp4, rampPhases'.ramp4, bpm, 4, dt)
              /\ RampAdvanced(rampPhases.ramp8, rampPhases'.ramp8, bpm, 8, dt)
              /\ FBelowOne(rampPhases'.ramp2)
              /\ FBelowOne(rampPhases'.ramp4)
              /\ FBelowOne(rampPhases'.ramp8)
              /\ metrics'.ramp2 = rampPhases'.ramp2
              /\ metrics'.ramp4 = rampPhases'.ramp4
              /\ metrics'.ramp8 = rampPhases'.ramp8
              /\ (bpm = 0 /\ dt = 1000) =>
                    /\ rampPhases'.ramp2 = rampPhases.ramp2
                    /\ rampPhases'.ramp4 = FMod1(FAdd(rampPhases.ramp4, FNorm(1, -1)))
                    /\ rampPhases'.ramp8 = FMod1(FAdd(rampPhases.ramp8, FNorm(1, -2)))]_vars

\* a tick under a tracked tempo other than 120 after a tick of 1000 ms that
\* had none
RampsUnderTrackedTempo ==
    /\ beatTracking.bpm > 0
    /\ beatTracking.bpm # 120
    /\ \E i \in 1 .. Len(log) :
          /\ log[i].deltaTime = 1000
          /\ Len(AcceptedTimes(SubSeq(log, 1, i))) < 4
    /\ rampPhases.ramp8.m # 0


\* ----- the ramps and the wall clock (C22) -----------------------------------
\* C22: every update() call on an initialized analyzer, a call that returns
\* early for want of a feature frame included, carries each ramp on by its
\* rate times the time since the call (or the init) before it, so that the
\* phase is the rate times the wall-clock time since initialization, modulo 1.
RampsFollowWallClock ==
    [][(UpdateCalled /\ ~NotReady) =>
          LET elapsed == now' - lastUpdateTime
              bpm == beatTracking'.bpm
          IN  /\ RampAdvanced(rampPhases.ramp2, rampPhases'.ramp2, bpm, 2, elapsed)
              /\ RampAdvanced(rampPhases.ramp4, rampPhases'.ramp4, bpm, 4, elapsed)
              /\ RampAdvanced(rampPhases.ramp8, rampPhases'.ramp8, bpm, 8, elapsed)]_vars


\* ----- the trigger condition of a band (C23) --------------------------------
\* COOLDOWN: the band triggered before, no more than its cooldown before t
InCooldown(b, t) == DetectedTicks(b) # {} /\ t - hits[b].lastTime <= Cooldown(b)

\* delta = energy - prevEnergy > Math.max(0.1, avgEnergy * 0.5) and energy > 0.2
\* for the energy and the running average of the tick just made
RisesSharply(b) ==
    /\ EnergyIn(metrics', b) - hits[b].prevEnergy
          > Max(SCALE \div 10, Frac(hits'[b].avgEnergy, 5, 10))
    /\ EnergyIn(metrics', b) > Frac(SCALE, 2, 10)

\* C23: on a processed tick a band's hit triggers exactly when the band is out
\* of cooldown, delta exceeds max(0.1, avgEnergy * 0.5) and the energy is above
\* 0.2; no hit is detected at an energy of 0.2 or less, and a run of silence
\* has no hit, no beat and a bpm of 0.
TriggerCondition ==
    /\ [][(lastOp' = "update:processed" /\ log' # log) =>
             \A b \in BandNames :
                /\ hits'[b].detected <=> (~InCooldown(b, now') /\ RisesSharply(b))
                /\ (EnergyIn(metrics', b) <= Frac(SCALE, 2, 10)) => ~hits'[b].detected]_vars
    /\ [](SoundTicks = {} =>
             /\ \A b \in BandNames : DetectedTicks(b) = {} /\ ~hits[b].detected
             /\ beatTracking.beatHistory = << >>
             /\ metrics.bpm = 0)


\* ----- the peak trackers through a long silence (C24) -----------------------
\* the ticks of silence before the first sound, and the ticks after them
SilentTicks == 2100
MaxStepsPeaks == 2106

\* a frame of 0.05 on the lowest bands and one of 0.5 on the low and middle bands
FaintFrame == Features(MelFrame(SCALE \div 20, 0, 0), SCALE \div 20, 300)
SoftFrame == Features(MelFrame(SCALE \div 2, SCALE \div 2, 0), SCALE \div 4, 900)

\* init(), then a render loop of 16 ms ticks: silence for SilentTicks ticks,
\* then any of silence and the two frames
NextPeaks ==
    \/ \E dt \in {10} : steps < MaxStepsPeaks /\ InitCall(FALSE, dt)
    \/ \E dt \in {10} : steps < MaxStepsPeaks /\ InitGranted("ok", dt)
    \/ \E f \in {QuietFrame, FaintFrame, SoftFrame} :
          /\ steps < MaxStepsPeaks
          /\ isInit
          /\ (f # QuietFrame) => steps >= SilentTicks
          /\ Update("silence", f, 16)

SpecPeaks == Constructed("V7") /\ [][NextPeaks]_vars

\* the peak a snapshot's band was normalized with
PeakNames == {"bass", "mid", "treble"}

\* C24: after every processed tick each peak is max(0.999 * peak, raw), so at
\* least the raw value of the tick, and the band is normalized by a
\* denominator max(0.1, 0.8 * peak) of at least 0.1: the published level is
\* min(1, raw / denominator) and never more than raw / 0.1.
PeaksTrackAndFloor ==
    [][(lastOp' = "update:processed" /\ log' # log) =>
          \A f \in PeakNames :
             LET raw == log'[Len(log')].raw[f]
                 denominator == Max(SCALE \div 10, Frac(peaks'[f], 8, 10))
             IN  /\ peaks'[f] >= raw
                 /\ peaks'[f] = Max(Frac(peaks[f], 999, 1000), raw)
                 /\ peaks'[f] >= 0
                 /\ metrics'[f] = Min(SCALE, DivScale(raw, denominator))
                 /\ metrics'[f] <= 10 * raw]_vars

\* a faint tick after the silence: 0.8 of the decayed peak is under 0.1, and
\* the raw level of the tick is published divided by 0.1
FaintTickOnFloor ==
    /\ lastOp = "update:processed"
    /\ Frac(peaks.bass, 8, 10) < SCALE \div 10
    /\ log[Len(log)].raw.bass > 0
    /\ log[Len(log)].raw.bass < SCALE \div 10
    /\ metrics.bass = 10 * log[Len(log)].raw.bass


\* ----- the partition of the mel bands (C25) ---------------------------------
\* the longest mel-band vector of SpecPartition and the number of its steps
MaxMelBands == 8
MaxStepsPartition == 2

\* the band extraction of update() on a mel-band vector m
ExtractBands(m) ==
    /\ variant = "V7"
    /\ Clock(16)
    /\ log' = Append(log, [numBands |-> Len(m), raw |-> BandSums(m)])
    /\ lastOp' = "update:bands"
    /\ UNCHANGED << initPc, v7vars, v5, v6, held, v1, tesseract >>

\* vectors of every length up to MaxMelBands, all zero or all 0.5
NextPartition ==
    \E n \in 1 .. MaxMelBands, v \in {0, SCALE \div 2} :
        steps < MaxStepsPartition /\ ExtractBands([i \in 1 .. n |-> v])

SpecPartition == Constructed("V7") /\ [][NextPartition]_vars

\* the indices m.slice(lo, hi) takes from a vector of length n
SliceIndices(n, lo, hi) == {i \in 0 .. n - 1 : lo <= i /\ i < hi}

\* C25: for every length n >= 1 the slices [0, floor(0.2 n)),
\* [floor(0.2 n), floor(0.5 n)) and the rest are contiguous, disjoint, cover
\* the n bands and are each non-empty, so that no band mean is 0/0.
PartitionProper ==
    \A k \in 1 .. Len(log) :
        LET n == log[k].numBands
            bassSlice == SliceIndices(n, 0, BassEnd(n))
            midSlice == SliceIndices(n, BassEnd(n), MidEnd(n))
            trebleSlice == SliceIndices(n, MidEnd(n), n)
        IN  /\ bassSlice \cup midSlice \cup trebleSlice = 0 .. n - 1
            /\ bassSlice \cap midSlice = {}
            /\ midSlice \cap trebleSlice = {}
            /\ bassSlice \cap trebleSlice = {}
            /\ bassSlice # {} /\ midSlice # {} /\ trebleSlice # {}
            /\ Cardinality(bassSlice) = BassEnd(n)
            /\ Cardinality(midSlice) = MidEnd(n) - BassEnd(n)
            /\ Cardinality(trebleSlice) = n - MidEnd(n)


\* ----- update() interleaved with init() (C26) -------------------------------
\* init() has been called and has neither succeeded nor failed yet
InitPending == initPc \in {"resuming", "asking"}

\* C26: isInit holds only with the extractor created and started and init()
\* through; an update() issued while init() is pending changes nothing; a
\* frame is processed only after init() succeeded; and once init() has failed
\* isInit never becomes true.
UpdateWaitsForInit ==
    /\ [](isInit => (meydaAnalyzer = "started" /\ initPc = "ready"))
    /\ [][UpdateCalled =>
             /\ InitPending => (lastOp' = "update:noop" /\ UNCHANGED v7vars)
             /\ (lastOp' \in {"update:processed", "update:early"}) => initPc = "ready"]_vars
    /\ [][(initPc = "failed") => (initPc' = "failed" /\ ~isInit')]_vars

\* an update() issued between the call of init() and the answer of
\* getUserMedia
UpdateWhileInitPending ==
    /\ initPc = "asking"
    /\ lastOp = "update:noop"
    /\ metrics = InitMetrics


\* ----- the timers of the bands (C27) ----------------------------------------
\* the time since the last event a snapshot publishes for a band
TimeIn(m, b) == CASE b = "bass" -> m.bassTime [] b = "mid" -> m.midTime [] b = "high" -> m.highTime

\* C27: after every processed tick bassTime, midTime and highTime are the
\* milliseconds since the band's most recent hit trigger, 0 on the tick of the
\* trigger itself.
TimersSinceTrigger ==
    (lastOp = "update:processed") =>
        \A b \in BandNames :
            (hits[b].lastTime > 0) => TimeIn(metrics, b) = now - hits[b].lastTime


\* ----- the band levels of the linear-FFT analyzers (C28) --------------------
\* the number of calls of a run of SpecLinearBands
MaxStepsLinearBands == 3

InitLinearBands == \E v \in {"V1", "V5"} : Constructed(v)

NextLinearBands ==
    \/ \E s \in SpectrumIds, dt \in {16, 100, 160} :
          steps < MaxStepsLinearBands /\ V1Update(s, dt)
    \/ \E s \in SpectrumIds, dt \in {16, 100, 160} :
          steps < MaxStepsLinearBands /\ V5Update(s, dt)

SpecLinearBands == InitLinearBands /\ [][NextLinearBands]_vars

\* the arithmetic mean of the normalized bins lo..hi of a spectrum
BinMean(data, lo, hi) == DivScale(SumBins(data, lo, hi), 255 * (hi - lo + 1))

\* the means of the bins that the loop of V1 routes to each band
V1Means(data) ==
    [bass |-> BinMean(data, 0, 11),
     mid |-> BinMean(data, 12, 89),
     treble |-> BinMean(data, 90, BufferLength - 1)]

\* the means of the bins that the loop of V5 routes to each band
V5Means(data) ==
    [bass |-> BinMean(data, 0, 5),
     lowMid |-> BinMean(data, 6, 12),
     mid |-> BinMean(data, 13, 47),
     highMid |-> BinMean(data, 48, 186),
     treble |-> BinMean(data, 187, BufferLength - 1)]

V1MeansTable ==
    [silence |-> V1Means(SpectrumOf("silence")), kick |-> V1Means(SpectrumOf("kick")),
     snare |-> V1Means(SpectrumOf("snare")), full |-> V1Means(SpectrumOf("full"))]

V5MeansTable ==
    [silence |-> V5Means(SpectrumOf("silence")), kick |-> V5Means(SpectrumOf("kick")),
     snare |-> V5Means(SpectrumOf("snare")), full |-> V5Means(SpectrumOf("full"))]

\* C28: in V1 and V5 every band level is the arithmetic mean of the normalized
\* bins the loop routes to the band, so that a spectrum of 255 in every bin
\* gives 1.0 in every band.
BandLevelsAreMeans ==
    /\ (variant = "V1") => v1.bands = V1MeansTable[v1.spectrum]
    /\ (variant = "V5") => \E s \in SpectrumIds : v5.bands = V5MeansTable[s]
    /\ (variant = "V5" /\ v5.bands.bass = SCALE) =>
          \A f \in {"lowMid", "mid", "highMid", "treble"} : v5.bands[f] = SCALE


\* ----- the published hit strengths (C29) ------------------------------------
\* the hit strength a snapshot publishes for a band
HitIn(m, b) == CASE b = "bass" -> m.bassHit [] b = "mid" -> m.midHit [] b = "high" -> m.highHit

\* C29: bassHit, midHit and highHit are in [0, 0.85] after every update(); on
\* a processed tick the value is 0.85 when the band triggered and 0.85 times
\* the value before when it did not, and any other call leaves it alone.
HitStrengthsDecay ==
    /\ [](\A b \in BandNames :
             /\ HitIn(metrics, b) >= 0
             /\ HitIn(metrics, b) <= Frac(SCALE, 85, 100)
             /\ HitIn(metrics, b) = hits[b].value)
    /\ [][UpdateCalled =>
             \A b \in BandNames :
                HitIn(metrics', b) =
                   IF lastOp' # "update:processed" THEN HitIn(metrics, b)
                   ELSE IF hits'[b].detected THEN Frac(SCALE, 85, 100)
                   ELSE Frac(HitIn(metrics, b), 85, 100)]_vars

\* a processed tick on which one band triggers while another publishes the
\* decayed value of its trigger of the tick before
TriggerBesideDecayedHit ==
    /\ lastOp = "update:processed"
    /\ \E b \in BandNames : hits[b].detected /\ HitIn(metrics, b) = Frac(SCALE, 85, 100)
    /\ \E b \in BandNames :
          ~hits[b].detected /\ HitIn(metrics, b) = Frac(Frac(SCALE, 85, 100), 85, 100)


\* ----- the Tesseract fed by the full-metrics analyzer (C30) -----------------
\* the frames of sustained bass before the first pause, and the calls of a run
SustainSteps == 160
MaxStepsTesseract == 172

\* init(), then a render loop: update() every 40 ms, each followed by
\* animate(getMetrics()); loud frames for the first SustainSteps steps, loud or
\* silent frames after them
NextTesseract ==
    \/ \E dt \in {10} : steps < MaxStepsTesseract /\ InitCall(FALSE, dt)
    \/ \E dt \in {10} : steps < MaxStepsTesseract /\ InitGranted("ok", dt)
    \/ \E f \in {QuietFrame, LoudFrame} :
          /\ steps < MaxStepsTesseract
          /\ isInit
          /\ lastOp # "update:processed"
          /\ (f = QuietFrame) => steps >= SustainSteps
          /\ Update("silence", f, 39)
    \/ /\ steps < MaxStepsTesseract
       /\ lastOp = "update:processed"
       /\ Animate(1)

SpecTesseract == Constructed("V7") /\ [][NextTesseract]_vars

\* C30: fed the snapshots of the full-metrics analyzer, animate() shifts the
\* rotation planes on a bass hit under a bass presence above 0.7: a call that
\* sees the tick of a bass trigger with that presence has switched, unless a
\* switch no more than 2000 ms before holds it back; and two switches are more
\* than 2000 ms apart.
ShiftOnBassHit ==
    /\ (lastOp = "animate" /\ hits["bass"].detected
          /\ metrics.bassPresence > Frac(SCALE, 7, 10))
       => (tesseract.switches > 0 /\ now - tesseract.lastBeatTime <= 2000)
    /\ (tesseract.switches > 1) => (tesseract.lastBeatTime > 2000)

=============================================================================
